---- MODULE Spec2Model ----
(***************************************************************************)
(* Model of backend/utils/model_manager.py (TabWise): the bounded model    *)
(* cache (ModelCache) and the artifact registry with its download and      *)
(* verify pipeline (ModelManager).                                         *)
(***************************************************************************)
EXTENDS Integers, Sequences, FiniteSets, TLC

(***************************************************************************)
(* Bounds of the model.                                                    *)
(***************************************************************************)
\* ModelCache.max_size_bytes, the configured ceiling (scaled down)
max_size_bytes == 3
\* ModelCache.ttl, the configured time-to-live, in clock ticks
ttl == 1
\* the largest size_bytes a put is called with (larger than the ceiling)
MaxSize == 4
\* the clock stops at MaxTime
MaxTime == 3
\* puts are not issued once total_size would pass MaxTotal
MaxTotal == 5
\* the number of times a file is changed from outside in one run
MaxTamper == 1
\* the number of process starts in one run
MaxGen == 2

CacheKeys == {"k1", "k2", "k3"}
Sizes == 1..MaxSize

(***************************************************************************)
(* ModelCache.  cache_index["entries"] is a Python dict: a sequence of     *)
(* [key, timestamp, size] in insertion order with unique keys.  A cache    *)
(* value c is [entries, total_size, files, saved]: the in-memory index,    *)
(* the set of keys whose <key>.pt file is on disk, and the content of      *)
(* cache_index.json as of the last save_cache_index.                       *)
(***************************************************************************)
HasKey(entries, key) == \E i \in 1..Len(entries) : entries[i].key = key

EntryOf(entries, key) ==
    entries[CHOOSE i \in 1..Len(entries) : entries[i].key = key]

DelKey(entries, key) == SelectSeq(entries, LAMBDA e : e.key # key)

\* entries[key] = value: an existing key keeps its place, a new one is appended
SetKey(entries, key, value) ==
    IF HasKey(entries, key)
    THEN [i \in 1..Len(entries) |->
             IF entries[i].key = key THEN value ELSE entries[i]]
    ELSE Append(entries, value)

RECURSIVE SumSizes(_)
SumSizes(entries) ==
    IF entries = << >> THEN 0
    ELSE Head(entries).size + SumSizes(Tail(entries))

save_cache_index(c) ==
    [c EXCEPT !.saved = [entries |-> c.entries, total_size |-> c.total_size]]

invalidate_keeps_total(c, cache_key) ==
    IF HasKey(c.entries, cache_key)
    THEN save_cache_index(
           [c EXCEPT !.files = c.files \ {cache_key},
                     !.entries = DelKey(c.entries, cache_key)])
    ELSE c

invalidate(c, cache_key) ==
    IF HasKey(c.entries, cache_key)
    THEN save_cache_index(
           [c EXCEPT !.files = c.files \ {cache_key},
                     !.total_size = c.total_size - EntryOf(c.entries, cache_key).size,
                     !.entries = DelKey(c.entries, cache_key)])
    ELSE c

oldest_key_newest(entries) ==
    entries[CHOOSE i \in 1..Len(entries) :
              \A j \in 1..Len(entries) :
                 \/ entries[j].timestamp < entries[i].timestamp
                 \/ entries[j].timestamp = entries[i].timestamp /\ j >= i].key

\* min(entries.keys(), key = timestamp): the first key holding the least timestamp
oldest_key(entries) ==
    entries[CHOOSE i \in 1..Len(entries) :
              \A j \in 1..Len(entries) :
                 \/ entries[j].timestamp > entries[i].timestamp
                 \/ entries[j].timestamp = entries[i].timestamp /\ j >= i].key

RECURSIVE ensure_cache_size(_, _)
ensure_cache_size(c, needed_bytes) ==
    IF c.total_size + needed_bytes > max_size_bytes /\ c.entries # << >>
    THEN ensure_cache_size(invalidate(c, oldest_key(c.entries)), needed_bytes)
    ELSE c

\* the entries _ensure_cache_size(needed_bytes) removes, in the order removed
RECURSIVE EvictedBy(_, _)
EvictedBy(c, needed_bytes) ==
    IF c.total_size + needed_bytes > max_size_bytes /\ c.entries # << >>
    THEN << EntryOf(c.entries, oldest_key(c.entries)) >>
            \o EvictedBy(invalidate(c, oldest_key(c.entries)), needed_bytes)
    ELSE << >>

put(c, cache_key, size_bytes, t) ==
    LET c1 == ensure_cache_size(c, size_bytes)
        c2 == [c1 EXCEPT !.files = c1.files \cup {cache_key},
                         !.entries = SetKey(c1.entries, cache_key,
                                        [key |-> cache_key, timestamp |-> t,
                                         size |-> size_bytes]),
                         !.total_size = c1.total_size + size_bytes]
    IN  save_cache_index(c2)

is_expired_late(entry, t) == t - entry.timestamp > ttl + 1

\* datetime.now() - cached_time > self.ttl
is_expired(entry, t) == t - entry.timestamp > ttl

get_refreshes(c, cache_key, t, loads) ==
    IF ~HasKey(c.entries, cache_key)
    THEN [cache |-> c, hit |-> FALSE]
    ELSE IF is_expired(EntryOf(c.entries, cache_key), t)
    THEN [cache |-> invalidate(c, cache_key), hit |-> FALSE]
    ELSE IF cache_key \notin c.files \/ ~loads
    THEN [cache |-> invalidate(c, cache_key), hit |-> FALSE]
    ELSE [cache |-> [c EXCEPT !.entries =
                        [i \in DOMAIN c.entries |->
                            IF c.entries[i].key = cache_key
                            THEN [c.entries[i] EXCEPT !.timestamp = t]
                            ELSE c.entries[i]]],
          hit |-> TRUE]

get_keeps_unloadable(c, cache_key, t, loads) ==
    IF ~HasKey(c.entries, cache_key)
    THEN [cache |-> c, hit |-> FALSE]
    ELSE IF is_expired(EntryOf(c.entries, cache_key), t)
    THEN [cache |-> invalidate(c, cache_key), hit |-> FALSE]
    ELSE [cache |-> c, hit |-> cache_key \in c.files /\ loads]

\* get(cache_key) at time t; loads says whether torch.load of the file succeeds.
\* The result is the cache afterwards and whether a handle was returned.
get(c, cache_key, t, loads) ==
    IF ~HasKey(c.entries, cache_key)
    THEN [cache |-> c, hit |-> FALSE]
    ELSE IF is_expired(EntryOf(c.entries, cache_key), t)
    THEN [cache |-> invalidate(c, cache_key), hit |-> FALSE]
    ELSE IF cache_key \notin c.files
    THEN [cache |-> invalidate(c, cache_key), hit |-> FALSE]
    ELSE IF loads
    THEN [cache |-> c, hit |-> TRUE]
    ELSE [cache |-> invalidate(c, cache_key), hit |-> FALSE]

(***************************************************************************)
(* ModelManager.  A path in models_dir is [stem, suffix] (pathlib's split   *)
(* of the file name); an artifact name is the path of its file.  A manager  *)
(* value m is [config, manifest, disk]: self.config["models"], the content  *)
(* of models.json as of the last save_config, and the files in models_dir   *)
(* (a function from the paths that exist to their content, a byte string).  *)
(***************************************************************************)
Name_a_tmp == [stem |-> "a", suffix |-> ".tmp"]
Name_a == [stem |-> "a", suffix |-> ""]
Name_b_gguf == [stem |-> "b", suffix |-> ".gguf"]

\* config["models"] in dict order
Registry == << Name_a_tmp, Name_a, Name_b_gguf >>
Names == {Registry[i] : i \in 1..Len(Registry)}

\* a name no manifest entry has, and the names a caller may pass
Name_z == [stem |-> "z", suffix |-> ""]
AllNames == Names \cup {Name_z}

\* the "required" flag of each manifest entry
IsRequired(name) == name \in {Name_a_tmp, Name_a}

\* what the artifact's url serves, one byte per chunk of the response
Remote(name) ==
    IF name = Name_a_tmp THEN << 1, 2 >>
    ELSE IF name = Name_a THEN << 3, 4 >>
    ELSE << 5, 6 >>

NoneHash == << >>
Sentinel == << "expected_hash_here" >>

\* hashlib.sha256 of the file's bytes, taken as collision-free
calculate_hash(content) == << "sha256" >> \o content

\* self.models_dir / model_name
model_path(name) == name

\* Path.with_suffix: the last suffix is replaced, or added when there is none
with_suffix(path, suffix) == [stem |-> path.stem, suffix |-> suffix]

temp_path(name) == with_suffix(model_path(name), ".tmp")

Paths == {model_path(n) : n \in Names} \cup {temp_path(n) : n \in Names}

exists(disk, path) == path \in DOMAIN disk

WriteFile(disk, path, content) ==
    [q \in DOMAIN disk \cup {path} |-> IF q = path THEN content ELSE disk[q]]

unlink(disk, path) == [q \in DOMAIN disk \ {path} |-> disk[q]]

\* Path.rename (POSIX): the target is replaced; renaming a file to itself changes nothing
rename(disk, src, dst) ==
    IF src = dst THEN disk
    ELSE [q \in (DOMAIN disk \cup {dst}) \ {src} |->
             IF q = dst THEN disk[src] ELSE disk[q]]

\* the file at a path as a reader sees it: << >> when absent, << content >> otherwise
FileAt(disk, path) == IF exists(disk, path) THEN << disk[path] >> ELSE << >>

save_config_skip(m) == m

save_config(m) == [m EXCEPT !.manifest = m.config]

\* models.json when it holds no JSON document: save_config opened it with mode
\* 'w' (line 155), which empties it, and json.dump (line 156) raised before the
\* document was written
Unparsable == << >>

\* whether json.load of the manifest file (line 130) returns
parses(manifest) == manifest # Unparsable

\* save_config raising in json.dump, after the open
save_config_truncates(m) == [m EXCEPT !.manifest = Unparsable]

\* the hash the manifest file records for a name, for a reader of the file
manifest_sha256(m, name) ==
    IF parses(m.manifest) THEN m.manifest[name].sha256 ELSE << "JSONDecodeError" >>

load_config_nosave(m) ==
    [m EXCEPT !.config =
        [n \in DOMAIN m.manifest |->
            IF m.manifest[n].sha256 = Sentinel
            THEN [m.manifest[n] EXCEPT !.sha256 = NoneHash]
            ELSE m.manifest[n]]]

\* load_config with models.json present (lines 128-135): the manifest is read,
\* every placeholder hash becomes None, and the result is saved
load_config(m) ==
    save_config([m EXCEPT !.config =
        [n \in DOMAIN m.manifest |->
            IF m.manifest[n].sha256 = Sentinel
            THEN [m.manifest[n] EXCEPT !.sha256 = NoneHash]
            ELSE m.manifest[n]]])

verify_model_noadopt(m, model_name) ==
    IF ~exists(m.disk, model_path(model_name))
    THEN [m |-> m, result |-> FALSE]
    ELSE IF m.config[model_name].sha256 = NoneHash
    THEN [m |-> m, result |-> TRUE]
    ELSE [m |-> m,
          result |-> calculate_hash(m.disk[model_path(model_name)])
                        = m.config[model_name].sha256]

verify_model_readopt(m, model_name) ==
    IF ~exists(m.disk, model_path(model_name))
    THEN [m |-> m, result |-> FALSE]
    ELSE [m |-> save_config(
                  [m EXCEPT !.config[model_name].sha256 =
                               calculate_hash(m.disk[model_path(model_name)])]),
          result |-> TRUE]

\* verify_model(model_name): the manager afterwards and the value returned
verify_model(m, model_name) ==
    IF ~exists(m.disk, model_path(model_name))
    THEN [m |-> m, result |-> FALSE]
    ELSE IF m.config[model_name].sha256 = NoneHash
    THEN [m |-> save_config(
                  [m EXCEPT !.config[model_name].sha256 =
                               calculate_hash(m.disk[model_path(model_name)])]),
          result |-> TRUE]
    ELSE [m |-> m,
          result |-> calculate_hash(m.disk[model_path(model_name)])
                        = m.config[model_name].sha256]

\* what config["models"][model_name] raises with no membership test before it
unknown_error_keyerror(m, model_name) ==
    IF model_name \notin DOMAIN m.config THEN "KeyError" ELSE "none"

\* the test that opens download_model, get_model_info and get_model_path
\* (lines 168-169, 288-289, 300-301)
unknown_error(m, model_name) ==
    IF model_name \notin DOMAIN m.config THEN "ValueError" ELSE "none"

\* download_model, lines 174-177: a placeholder hash becomes None and is saved
normalize_placeholder(m, model_name) ==
    IF m.config[model_name].sha256 = Sentinel
    THEN save_config([m EXCEPT !.config[model_name].sha256 = NoneHash])
    ELSE m

checks_existing_inverted(m, model_name, force) ==
    force /\ exists(m.disk, model_path(model_name))

\* download_model, line 180: whether the existing file is verified first
checks_existing(m, model_name, force) ==
    ~force /\ exists(m.disk, model_path(model_name))

\* the except block of download_model once temp_path is bound (lines 220-224)
cleanup_temp(m, model_name) ==
    IF exists(m.disk, temp_path(model_name))
    THEN [m EXCEPT !.disk = unlink(m.disk, temp_path(model_name))]
    ELSE m

VARIABLES cache, now, cacheOp, mgr, dl, ens, lastOp, verified, tampers,
          proc, ih, cli, keyOp, loadOp, sv

cvars == << cache, now, cacheOp >>
mvars == << mgr, dl, ens, lastOp, verified, tampers >>
\* the process generation, the InferenceHandler, the command line run, and the
\* records of the last get_cache_key comparison and the last load_model call
ovars == << proc, ih, cli, keyOp, loadOp, sv >>
vars == << cache, now, cacheOp, mgr, dl, ens, lastOp, verified, tampers,
           proc, ih, cli, keyOp, loadOp, sv >>

NoEntry == [key |-> "", timestamp |-> -1, size |-> 0]

\* cacheOp records the last ModelCache call: its arguments, the time it ran at,
\* the entry its key had before the call, what it returned, and for a put the
\* entries it evicted (in order) and the earlier entries it left in place.
\* For a get of an entry that is in the index and not expired, unloadable says
\* why its handle cannot be had ("missing": no .pt file, "unreadable": torch.load
\* raises, "no": it can) and pre_total is total_size before the call.
NoCall == [op |-> "init", key |-> "", at |-> 0, hit |-> FALSE, pre |-> NoEntry,
           evicted |-> << >>, kept |-> << >>, unloadable |-> "no", pre_total |-> 0]

PreEntry(k) == IF HasKey(cache.entries, k) THEN EntryOf(cache.entries, k) ELSE NoEntry

\* ModelCache.__init__ with no cache_index.json yet: load_cache_index writes a fresh one
CacheInit ==
    /\ cache = [entries |-> << >>, total_size |-> 0, files |-> {},
                saved |-> [entries |-> << >>, total_size |-> 0]]
    /\ now = 0
    /\ cacheOp = NoCall

\* dl is the running download_model call: where it stands (pc), its arguments, who
\* called it, and what lastOp will record of its start (pre_sha, repeat, after_net)
IdleDl == [pc |-> "idle", name |-> Name_a, force |-> FALSE, caller |-> "api",
           pre_sha |-> NoneHash, pre_file |-> << >>, repeat |-> FALSE,
           after_net |-> FALSE]

\* ens is the running ensure_models call: the registry entry its loop is at and
\* its success flag; pc is "wait" while the download it called runs
\* net says a download it called sent a request, skipped that a required artifact
\* failed verification and download_model was not called for it
IdleEns == [pc |-> "idle", i |-> 0, success |-> TRUE, net |-> FALSE,
            skipped |-> FALSE]

\* lastOp records the ModelManager call that has just returned (or a change made to
\* a file from outside): its arguments and result ("True", "False" or "raised"),
\* whether it reached the network (net), whether an error struck it (error),
\* whether it returned with config, manifest and disk as it found them (same), the
\* hash recorded for its artifact before it ran (pre_sha), and what preceded it:
\* repeat says it is a download without force made right after a download of the
\* same name returned True (after_net: that one transferred the file); stale says
\* the artifact's file no longer holds the content a verify last succeeded on.
NoOp == [op |-> "none", name |-> Name_a, force |-> FALSE, result |-> "none",
         net |-> FALSE, error |-> FALSE, same |-> FALSE, pre_sha |-> NoneHash,
         repeat |-> FALSE, after_net |-> FALSE, stale |-> FALSE,
         exc |-> "none", pre_file |-> << >>, dl_result |-> "none"]

\* ModelManager.__init__ on a manifest whose hashes are unknown; each required or
\* optional artifact's file may already have been put in models_dir by hand
MgrInitWith(present) ==
    /\    mgr = [config |-> [n \in Names |-> [sha256 |-> NoneHash, required |-> IsRequired(n)]],
                 manifest |-> [n \in Names |-> [sha256 |-> NoneHash, required |-> IsRequired(n)]],
                 disk |-> [q \in {model_path(n) : n \in present} |-> Remote(q)]]
    /\ dl = IdleDl
    /\ ens = IdleEns
    /\ lastOp = NoOp
    /\ verified = [n \in Names |-> << >>]
    /\ tampers = 0

MgrInit == \E present \in SUBSET Names : MgrInitWith(present)

\* proc: the number of the process (1 is the first start) and whether the process
\* before it ended right after an ensure_models that downloaded and returned True
\* normalized: the names whose hash was the placeholder when load_config read them
\* up: the constructor returned (load_config did not raise)
FirstProc == [gen |-> 1, ensured |-> FALSE, normalized |-> {}, up |-> TRUE]

\* InferenceHandler.__init__ (inference_handler.py lines 26-31) with gpu_layers g:
\* no model is held.  pc is where load_model stands, tried the gpu_layers values
\* from_pretrained was called with in the current load, held the gpu_layers values
\* of the failed attempts whose allocations are still referenced, failing the
\* values whose initialization fails on this device.
\* during is failing as it was when the current load began, caller who began it,
\* after_failure whether the call before it ended without a model.
NoModel == -1
Handler(g, failing) ==
    [gpu_layers |-> g, model |-> NoModel, pc |-> "idle", result |-> "none",
     tried |-> << >>, held |-> {}, failing |-> failing, during |-> {},
     caller |-> "none", after_failure |-> FALSE]

\* gpu_layers of the CPU-only attempt, and two values a handler is configured with
CpuOnly == 0
Weak == 1
Strong == 2
Tiers == {CpuOnly, Weak, Strong}

\* one run of main(): the command, --model (<< >> when not given), whether the
\* operation failed, and the exit code once the run has ended
NoCli == [pc |-> "none", cmd |-> "", model |-> << >>, failed |-> FALSE, exit |-> 0]
NoKeyOp == [done |-> FALSE, name |-> "", c1 |-> << >>, c2 |-> << >>,
            k1 |-> << >>, k2 |-> << >>, k1again |-> << >>]
\* loadOp records the last ModelManager.load_model call: its arguments, the time
\* it ran at, what it returned, whether cache.get returned the handle (cached),
\* whether from_pretrained was called (instantiated), the timestamp of the key's
\* entry when it returned (ts), whether the .pt file of its key was there and
\* loadable (loadable), and whether it repeats the successful load before it while
\* that load's entry is younger than the TTL (again, prev_config).
NoLoad == [op |-> "none", name |-> "", config |-> << >>, at |-> 0,
           result |-> "none", cached |-> FALSE, instantiated |-> FALSE,
           again |-> FALSE, ts |-> 0, loadable |-> FALSE, prev_config |-> << >>]

\* the files written by save_cache_index and save_config
SavedFiles == {"cache_index.json", "models.json"}

\* the number of write calls json.dump makes for one document, and the number of
\* versions of a document in one run
DocLen == 2
MaxVersion == 2

\* version v of the document of file f, as the chunks json.dump(..., indent=2)
\* writes in order
Doc(f, v) == [i \in 1..DocLen |-> [file |-> f, v |-> v, i |-> i, by |-> "json.dump"]]

\* a file that was not written by save_config (a shipped or hand-edited manifest:
\* other formatting, "expected_hash_here" for null) and that load_config reads as
\* version v of the document
Foreign(f, v) == [i \in 1..DocLen |-> [file |-> f, v |-> v, i |-> i, by |-> "hand"]]

\* sv: the version each document has in memory, the content of its file, where the
\* save of each file stands (pc), and what the last reader of a file got.
\* After construction both files hold the first version entire.
NoSave == [pc |-> [f \in SavedFiles |-> "idle"],
           version |-> [f \in SavedFiles |-> 1],
           disk |-> [f \in SavedFiles |-> Doc(f, 1)],
           seen |-> [read |-> FALSE, file |-> "models.json", content |-> << >>]]

OtherInit ==
    /\ sv = NoSave
    /\ proc = FirstProc
    /\ ih = Handler(0, {})
    /\ cli = NoCli
    /\ keyOp = NoKeyOp
    /\ loadOp = NoLoad

Init == CacheInit /\ MgrInit /\ OtherInit

\* the cache on its own: the manager stays as constructed on an empty models_dir
InitCacheOnly == CacheInit /\ MgrInitWith({}) /\ OtherInit

Put(k, s) ==
    /\ cache.total_size + s <= MaxTotal
    /\ cache' = put(cache, k, s, now)
    /\ cacheOp' = [NoCall EXCEPT !.op = "put", !.key = k, !.at = now,
                                 !.pre = PreEntry(k),
                                 !.evicted = EvictedBy(cache, s),
                                 !.kept = ensure_cache_size(cache, s).entries]
    /\ UNCHANGED << now, mvars, ovars >>

Unloadable(k, loads) ==
    IF ~HasKey(cache.entries, k) THEN "no"
    ELSE IF now - EntryOf(cache.entries, k).timestamp > ttl THEN "no"
    ELSE IF k \notin cache.files THEN "missing"
    ELSE IF ~loads THEN "unreadable"
    ELSE "no"

Get(k, loads) ==
    /\ cache' = get(cache, k, now, loads).cache
    /\ cacheOp' = [NoCall EXCEPT !.op = "get", !.key = k, !.at = now,
                                 !.pre = PreEntry(k),
                                 !.hit = get(cache, k, now, loads).hit,
                                 !.unloadable = Unloadable(k, loads),
                                 !.pre_total = IF Unloadable(k, loads) = "no" THEN 0
                                               ELSE cache.total_size]
    /\ UNCHANGED << now, mvars, ovars >>

Invalidate(k) ==
    /\ cache' = invalidate(cache, k)
    /\ cacheOp' = [NoCall EXCEPT !.op = "invalidate", !.key = k, !.at = now,
                                 !.pre = PreEntry(k)]
    /\ UNCHANGED << now, mvars, ovars >>

\* the wall clock advances between calls
Tick ==
    /\ now < MaxTime
    /\ now' = now + 1
    /\ UNCHANGED << cache, cacheOp, mvars, ovars >>

\* a <key>.pt file disappears from the cache directory behind the cache's back
LoseCacheFile(k) ==
    /\ k \in cache.files
    /\ cache' = [cache EXCEPT !.files = cache.files \ {k}]
    /\ cacheOp' = [NoCall EXCEPT !.op = "lose_file", !.key = k, !.at = now]
    /\ UNCHANGED << now, mvars, ovars >>

CacheNext ==
    \/ \E k \in CacheKeys, s \in Sizes : Put(k, s)
    \/ \E k \in CacheKeys, loads \in BOOLEAN : Get(k, loads)
    \/ \E k \in CacheKeys : Invalidate(k)
    \/ \E k \in CacheKeys : LoseCacheFile(k)
    \/ Tick

CacheSpec == InitCacheOnly /\ [][CacheNext]_vars

(***************************************************************************)
(* ModelManager calls.  verify_model runs in one step; download_model runs  *)
(* step by step (dl.pc), each step able to fail; ensure_models runs one     *)
(* registry entry per step (ens) and waits for the download it calls.       *)
(***************************************************************************)
\* a manager exists and none of its calls is running
Idle == dl.pc = "idle" /\ ens.pc = "idle" /\ proc.up

Pending == [NoOp EXCEPT !.op = "pending"]

\* the content a successful verify_model last saw in the artifact's file
NoteVerify(ver, m, name, result) ==
    IF result THEN [ver EXCEPT ![name] = << m.disk[model_path(name)] >>] ELSE ver

IsStale(ver, m, name) ==
    /\ ver[name] # << >>
    /\ m.config[name].sha256 # NoneHash
    /\ FileAt(m.disk, model_path(name)) # ver[name]

\* download_model returns res (or raises) to its caller, leaving the manager as m2
ReturnFrom(d, res, m2, net, err, same) ==
    /\ mgr' = m2
    /\ dl' = IdleDl
    /\ lastOp' = [NoOp EXCEPT !.op = IF d.caller = "path" THEN "path" ELSE "download",
                              !.name = d.name, !.force = d.force,
                              \* get_model_path returns the path whatever
                              \* download_model returned (lines 303-306)
                              !.result = IF d.caller = "path" /\ res # "raised"
                                         THEN "path" ELSE res,
                              !.dl_result = res,
                              !.exc = IF res # "raised" THEN "none"
                                      ELSE "UnboundLocalError",
                              !.net = net, !.error = err,
                              !.same = same, !.pre_sha = d.pre_sha,
                              !.pre_file = d.pre_file,
                              !.repeat = d.repeat, !.after_net = d.after_net]
    /\ ens' = IF d.caller # "ensure" THEN ens
              ELSE IF res = "raised" THEN IdleEns
              ELSE [ens EXCEPT !.pc = "loop", !.i = @ + 1, !.net = @ \/ net,
                               !.success = @ /\ (res = "True")]

\* download_model lines 166-185, entered by caller with the manager as m
BeginDownload(m, name, force, caller) ==
    LET m1 == normalize_placeholder(m, name)
        chk == checks_existing(m1, name, force)
        v == verify_model(m1, name)
        d == [pc |-> "request", name |-> name, force |-> force, caller |-> caller,
              pre_sha |-> m.config[name].sha256,
              pre_file |-> FileAt(m.disk, model_path(name)),
              repeat |-> /\ caller = "api" /\ ~force
                         /\ lastOp.op = "download" /\ lastOp.name = name
                         /\ lastOp.result = "True",
              after_net |-> lastOp.net]
    IN  IF chk /\ v.result
        THEN /\ ReturnFrom(d, "True", v.m, FALSE, FALSE, v.m = mgr)
             /\ verified' = NoteVerify(verified, m1, name, TRUE)
        ELSE /\ mgr' = IF chk THEN v.m ELSE m1
             /\ dl' = d
             /\ lastOp' = Pending
             /\ ens' = IF caller = "ensure" THEN [ens EXCEPT !.pc = "wait"] ELSE ens
             /\ verified' = verified

\* a call with a name that is not in the registry raises at once
RaiseUnknown(op, name) ==
    /\ lastOp' = [NoOp EXCEPT !.op = op, !.name = name, !.result = "raised",
                              !.exc = unknown_error(mgr, name), !.same = TRUE]
    /\ UNCHANGED << mgr, dl, ens, verified >>

DownloadModel(name, force) ==
    /\ Idle
    /\ IF unknown_error(mgr, name) # "none"
       THEN RaiseUnknown("download", name)
       ELSE BeginDownload(mgr, name, force, "api")
    /\ UNCHANGED << tampers, cvars, ovars >>

\* get_model_info (lines 286-296): "downloaded" is what verify_model returns
GetModelInfo(name) ==
    /\ Idle
    /\ IF unknown_error(mgr, name) # "none"
       THEN RaiseUnknown("info", name)
       ELSE LET v == verify_model(mgr, name)
            IN  /\ mgr' = v.m
                /\ lastOp' = [NoOp EXCEPT !.op = "info", !.name = name,
                                          !.result = IF v.result THEN "True" ELSE "False",
                                          !.same = (v.m = mgr),
                                          !.pre_sha = mgr.config[name].sha256]
                /\ verified' = NoteVerify(verified, mgr, name, v.result)
                /\ UNCHANGED << dl, ens >>
    /\ UNCHANGED << tampers, cvars, ovars >>

\* get_model_path (lines 298-306)
GetModelPath(name) ==
    /\ Idle
    /\ IF unknown_error(mgr, name) # "none"
       THEN RaiseUnknown("path", name)
       ELSE LET v == verify_model(mgr, name)
            IN  IF v.result
                THEN /\ mgr' = v.m
                     /\ lastOp' = [NoOp EXCEPT !.op = "path", !.name = name,
                                               !.result = "path",
                                               !.same = (v.m = mgr),
                                               !.pre_sha = mgr.config[name].sha256]
                     /\ verified' = NoteVerify(verified, mgr, name, TRUE)
                     /\ UNCHANGED << dl, ens >>
                ELSE BeginDownload(v.m, name, FALSE, "path")
    /\ UNCHANGED << tampers, cvars, ovars >>

\* requests.get and raise_for_status (lines 189-190); on failure the except block
\* reads temp_path before it is bound, so the call raises
DownloadRequest(ok) ==
    /\ dl.pc = "request"
    /\ IF ok
       THEN /\ dl' = [dl EXCEPT !.pc = "open"]
            /\ UNCHANGED << mgr, lastOp, ens >>
       ELSE ReturnFrom(dl, "raised", mgr, TRUE, TRUE, TRUE)
    /\ UNCHANGED << verified, tampers, cvars, ovars >>

\* open(temp_path, 'wb') (lines 194-195)
DownloadOpen(ok) ==
    /\ dl.pc = "open"
    /\ IF ok
       THEN /\ mgr' = [mgr EXCEPT !.disk = WriteFile(mgr.disk, temp_path(dl.name), << >>)]
            /\ dl' = [dl EXCEPT !.pc = "write"]
            /\ UNCHANGED << lastOp, ens >>
       ELSE ReturnFrom(dl, "False", cleanup_temp(mgr, dl.name), TRUE, TRUE, FALSE)
    /\ UNCHANGED << verified, tampers, cvars, ovars >>

\* one round of the iter_content loop (lines 202-204): the next chunk is appended
DownloadChunk(ok) ==
    /\ dl.pc = "write"
    /\ LET tmp == temp_path(dl.name)
           got == mgr.disk[tmp]
       IN  IF ok
           THEN /\ mgr' = [mgr EXCEPT !.disk = WriteFile(mgr.disk, tmp,
                                        Append(got, Remote(dl.name)[Len(got) + 1]))]
                /\ dl' = [dl EXCEPT !.pc = IF Len(got) + 1 = Len(Remote(dl.name))
                                           THEN "hash" ELSE "write"]
                /\ UNCHANGED << lastOp, ens >>
           ELSE ReturnFrom(dl, "False", cleanup_temp(mgr, dl.name), TRUE, TRUE, FALSE)
    /\ UNCHANGED << verified, tampers, cvars, ovars >>

\* the last chunk is written and the download fails before line 211 assigns the
\* hash: iter_content raises at the end of the body (line 203) or
\* calculate_hash(temp_path) raises (line 207).  The registry keeps the hash it
\* had, the except block removes the temporary file and False is returned.
DownloadHashRaises ==
    /\ dl.pc = "hash"
    /\ ReturnFrom(dl, "False", cleanup_temp(mgr, dl.name), TRUE, TRUE, FALSE)
    /\ UNCHANGED << verified, tampers, cvars, ovars >>

\* line 211 assigns the hash and save_config (line 212) raises in json.dump, after
\* its open(..., 'w') emptied models.json: the registry in memory holds the new
\* hash, the manifest file holds no document, the except block removes the
\* temporary file and False is returned.
DownloadSaveTruncates ==
    /\ dl.pc = "hash"
    /\ LET m1 == [mgr EXCEPT !.config[dl.name].sha256 =
                                calculate_hash(mgr.disk[temp_path(dl.name)])]
       IN  ReturnFrom(dl, "False", cleanup_temp(save_config_truncates(m1), dl.name),
                      TRUE, TRUE, FALSE)
    /\ verified' = [verified EXCEPT ![dl.name] = << >>]
    /\ UNCHANGED << tampers, cvars, ovars >>

\* lines 206-213: the hash of the temporary file is recorded in the registry
\* (line 211) and the config saved (line 212); with ok false save_config raises
\* in its open, after the assignment and with models.json as it was
DownloadHash(ok) ==
    /\ dl.pc = "hash"
    /\ LET m1 == [mgr EXCEPT !.config[dl.name].sha256 =
                                calculate_hash(mgr.disk[temp_path(dl.name)])]
       IN  IF ok
           THEN /\ mgr' = save_config(m1)
                /\ dl' = [dl EXCEPT !.pc = "rename"]
                /\ UNCHANGED << lastOp, ens >>
           ELSE ReturnFrom(dl, "False", cleanup_temp(m1, dl.name), TRUE, TRUE, FALSE)
    /\ verified' = [verified EXCEPT ![dl.name] = << >>]
    /\ UNCHANGED << tampers, cvars, ovars >>

\* lines 215-218: temp_path.rename(model_path), then return True
DownloadRename(ok) ==
    /\ dl.pc = "rename"
    /\ IF ok
       THEN ReturnFrom(dl, "True",
                [mgr EXCEPT !.disk = rename(mgr.disk, temp_path(dl.name),
                                            model_path(dl.name))],
                TRUE, FALSE, FALSE)
       ELSE ReturnFrom(dl, "False", cleanup_temp(mgr, dl.name), TRUE, TRUE, FALSE)
    /\ UNCHANGED << verified, tampers, cvars, ovars >>

VerifyModel(name) ==
    /\ Idle
    /\ LET v == verify_model(mgr, name)
       IN  /\ mgr' = v.m
           /\ lastOp' = [NoOp EXCEPT !.op = "verify", !.name = name,
                                     !.result = IF v.result THEN "True" ELSE "False",
                                     !.same = (v.m = mgr),
                                     !.pre_sha = mgr.config[name].sha256,
                                     !.stale = IsStale(verified, mgr, name)]
           /\ verified' = NoteVerify(verified, mgr, name, v.result)
    /\ UNCHANGED << dl, ens, tampers, cvars, ovars >>

\* ensure_models is entered: success = True, the loop starts at the first entry
EnsureModels ==
    /\ Idle
    /\ ens' = [IdleEns EXCEPT !.pc = "loop", !.i = 1]
    /\ lastOp' = Pending
    /\ UNCHANGED << mgr, dl, verified, tampers, cvars, ovars >>

\* one round of the loop of ensure_models (lines 280-283)
EnsureIter ==
    /\ ens.pc = "loop"
    /\ ens.i <= Len(Registry)
    /\ LET name == Registry[ens.i]
           v == verify_model(mgr, name)
       IN  IF ~mgr.config[name].required
           THEN /\ ens' = [ens EXCEPT !.i = @ + 1]
                /\ UNCHANGED << mgr, dl, lastOp, verified >>
           ELSE IF v.result \/ ~ens.success
           THEN \* verified, or `success and ...` does not evaluate the download
                /\ mgr' = v.m
                /\ ens' = [ens EXCEPT !.i = @ + 1, !.skipped = @ \/ ~v.result]
                /\ verified' = NoteVerify(verified, mgr, name, v.result)
                /\ UNCHANGED << dl, lastOp >>
           ELSE BeginDownload(v.m, name, FALSE, "ensure")
    /\ UNCHANGED << tampers, cvars, ovars >>

\* the loop is over: ensure_models returns success (line 284)
EnsureReturn ==
    /\ ens.pc = "loop"
    /\ ens.i > Len(Registry)
    /\ ens' = IdleEns
    /\ lastOp' = [NoOp EXCEPT !.op = "ensure", !.net = ens.net,
                              !.result = IF ens.success THEN "True" ELSE "False"]
    /\ UNCHANGED << mgr, dl, verified, tampers, cvars, ovars >>

FlipByte(b) == IF b = 0 THEN 9 ELSE 0

Truncated(content) == SubSeq(content, 1, Len(content) - 1)

Flipped(content) ==
    [i \in 1..Len(content) |->
        IF i = Len(content) THEN FlipByte(content[i]) ELSE content[i]]

\* between calls, an artifact's file is truncated, has a byte flipped or is deleted
Tamper(name, kind) ==
    /\ Idle
    /\ tampers < MaxTamper
    /\ exists(mgr.disk, model_path(name))
    /\ LET p == model_path(name)
           c == mgr.disk[p]
       IN  \/ /\ kind = "truncate" /\ c # << >>
              /\ mgr' = [mgr EXCEPT !.disk = WriteFile(mgr.disk, p, Truncated(c))]
           \/ /\ kind = "flip" /\ c # << >>
              /\ mgr' = [mgr EXCEPT !.disk = WriteFile(mgr.disk, p, Flipped(c))]
           \/ /\ kind = "delete"
              /\ mgr' = [mgr EXCEPT !.disk = unlink(mgr.disk, p)]
    /\ tampers' = tampers + 1
    /\ lastOp' = [NoOp EXCEPT !.op = "tamper", !.name = name]
    /\ UNCHANGED << dl, ens, verified, cvars, ovars >>

Next ==
    \/ \E n \in AllNames, f \in BOOLEAN : DownloadModel(n, f)
    \/ \E n \in AllNames : GetModelInfo(n)
    \/ \E n \in AllNames : GetModelPath(n)
    \/ \E ok \in BOOLEAN : DownloadRequest(ok)
    \/ \E ok \in BOOLEAN : DownloadOpen(ok)
    \/ \E ok \in BOOLEAN : DownloadChunk(ok)
    \/ DownloadHashRaises
    \/ DownloadSaveTruncates
    \/ \E ok \in BOOLEAN : DownloadHash(ok)
    \/ \E ok \in BOOLEAN : DownloadRename(ok)
    \/ \E n \in Names : VerifyModel(n)
    \/ EnsureModels
    \/ EnsureIter
    \/ EnsureReturn
    \/ \E n \in Names, kind \in {"truncate", "flip", "delete"} : Tamper(n, kind)

Spec == Init /\ [][Next]_vars

(***************************************************************************)
(* Process restarts: a new ModelManager is constructed on the manifest and  *)
(* the files the process before it left.                                    *)
(***************************************************************************)
\* When models.json holds no document json.load (line 130) raises
\* JSONDecodeError out of the constructor: no manager exists, nothing is written.
Restart ==
    /\ dl.pc = "idle" /\ ens.pc = "idle"
    /\ proc.gen < MaxGen
    /\ IF parses(mgr.manifest)
       THEN /\ mgr' = load_config(mgr)
            /\ proc' = [gen |-> proc.gen + 1,
                        ensured |-> /\ lastOp.op = "ensure" /\ lastOp.result = "True"
                                    /\ lastOp.net,
                        normalized |-> {n \in Names : mgr.manifest[n].sha256 = Sentinel},
                        up |-> TRUE]
            /\ lastOp' = [NoOp EXCEPT !.op = "restart"]
       ELSE /\ mgr' = mgr
            /\ proc' = [gen |-> proc.gen + 1, ensured |-> FALSE, normalized |-> {},
                        up |-> FALSE]
            /\ lastOp' = [NoOp EXCEPT !.op = "restart", !.result = "raised",
                                      !.exc = "JSONDecodeError"]
    /\ UNCHANGED << dl, ens, verified, tampers, cvars, ih, cli, keyOp, loadOp, sv >>

\* a manifest with one required artifact, every hash unknown, and no file on disk
MgrInitOneRequired ==
    /\ \E r \in Names :
          /\ mgr = [config |-> [n \in Names |-> [sha256 |-> NoneHash, required |-> n = r]],
                    manifest |-> [n \in Names |-> [sha256 |-> NoneHash, required |-> n = r]],
                    disk |-> << >>]
    /\ dl = IdleDl
    /\ ens = IdleEns
    /\ lastOp = NoOp
    /\ verified = [n \in Names |-> << >>]
    /\ tampers = 0

RestartNext ==
    \/ EnsureModels
    \/ EnsureIter
    \/ EnsureReturn
    \/ \E ok \in BOOLEAN : DownloadRequest(ok)
    \/ \E ok \in BOOLEAN : DownloadOpen(ok)
    \/ \E ok \in BOOLEAN : DownloadChunk(ok)
    \/ DownloadHashRaises
    \/ DownloadSaveTruncates
    \/ \E ok \in BOOLEAN : DownloadHash(ok)
    \/ \E ok \in BOOLEAN : DownloadRename(ok)
    \/ \E n \in Names : VerifyModel(n)
    \/ Restart

RestartInit == CacheInit /\ MgrInitOneRequired /\ OtherInit

RestartSpec == RestartInit /\ [][RestartNext]_vars

\* the values an entry's "sha256" can hold in models.json: null, the placeholder
\* the shipped manifest carries, or the hash of what the url serves
ManifestHashes(name) == {NoneHash, Sentinel, calculate_hash(Remote(name))}

\* between calls, models.json is edited by hand or replaced by a shipped one: the
\* entry of one artifact gets another hash value
EditManifest(name, h) ==
    /\ Idle
    /\ mgr.manifest[name].sha256 # h
    /\ mgr' = [mgr EXCEPT !.manifest[name].sha256 = h]
    /\ lastOp' = [NoOp EXCEPT !.op = "edit", !.name = name]
    /\ UNCHANGED << dl, ens, verified, tampers, cvars, ovars >>

ConstructNext ==
    \/ \E n \in Names : \E h \in ManifestHashes(n) : EditManifest(n, h)
    \/ \E n \in Names : VerifyModel(n)
    \/ Restart

ConstructInit == Init

ConstructSpec == ConstructInit /\ [][ConstructNext]_vars

(***************************************************************************)
(* Claims about ModelCache, checked under CacheSpec.                       *)
(***************************************************************************)

\* C1: after every put the running total (cache_index.total_size) does not
\* exceed the configured ceiling max_size_bytes.
C1_PutWithinCeiling ==
    cacheOp.op = "put" => cache.total_size <= max_size_bytes

\* C2: after any sequence of put, get and invalidate calls total_size equals
\* the sum of the sizes of the entries in the index.
C2_TotalIsSum == cache.total_size = SumSizes(cache.entries)

\* a get of a key that was in the index before the call
GetOfPresent == cacheOp.op = "get" /\ cacheOp.pre # NoEntry

GetMissedAndPurged == ~cacheOp.hit /\ ~HasKey(cache.entries, cacheOp.key)

\* C3 as stated: an entry inserted at T is a miss at every time t >= T + ttl
\* (t = T + ttl included) and is absent from the index after that get.
C3_MissFromTTL ==
    (GetOfPresent /\ cacheOp.at >= cacheOp.pre.timestamp + ttl)
        => GetMissedAndPurged

\* C3 amended: an entry inserted at T is a miss at every time t > T + ttl and
\* is absent from the index after that get.
C3_MissAfterTTL ==
    (GetOfPresent /\ cacheOp.at > cacheOp.pre.timestamp + ttl)
        => GetMissedAndPurged

C3_Witness ==
    /\ GetOfPresent
    /\ cacheOp.at > cacheOp.pre.timestamp + ttl
    /\ GetMissedAndPurged

\* C4: a put that evicts does so oldest insertion timestamp first: the evicted
\* entries leave in non-decreasing timestamp order and no entry the put left in
\* place has a timestamp older than that of an entry it evicted.
C4_EvictsOldestFirst ==
    cacheOp.op = "put" =>
        /\ \A i, j \in 1..Len(cacheOp.evicted) :
              i < j => cacheOp.evicted[i].timestamp <= cacheOp.evicted[j].timestamp
        /\ \A i \in 1..Len(cacheOp.evicted), j \in 1..Len(cacheOp.kept) :
              cacheOp.kept[j].timestamp >= cacheOp.evicted[i].timestamp

C4_Witness ==
    /\ cacheOp.op = "put"
    /\ Len(cacheOp.evicted) >= 1
    /\ \E j \in 1..Len(cacheOp.kept) :
          cacheOp.kept[j].timestamp > cacheOp.evicted[1].timestamp

(***************************************************************************)
(* Claims about the download and verify pipeline, checked under Spec.      *)
(***************************************************************************)

\* C24: a get of an entry that is in the index and not expired, whose .pt file is
\* missing or cannot be loaded, returns a miss (it does not raise); after it the
\* key is not in the index, its file is not in the cache directory, total_size is
\* what it was less the entry's size, and the saved index says the same.
C24_UnloadableEntryIsDropped ==
    (cacheOp.op = "get" /\ cacheOp.unloadable # "no") =>
        /\ ~cacheOp.hit
        /\ ~HasKey(cache.entries, cacheOp.key)
        /\ cacheOp.key \notin cache.files
        /\ cache.total_size = cacheOp.pre_total - cacheOp.pre.size
        /\ cache.saved = [entries |-> cache.entries, total_size |-> cache.total_size]

C24_Witness ==
    /\ cacheOp.op = "get"
    /\ cacheOp.unloadable = "unreadable"
    /\ cacheOp.pre.size > 0
    /\ cacheOp.at = cacheOp.pre.timestamp + ttl
    /\ cache.entries # << >>

\* C25: invalidate of a key that is not in the index changes nothing (entries,
\* total_size, saved index, files); invalidate of a key that is in the index
\* removes that entry and its file, lowers total_size by the entry's size, saves
\* the index, and leaves every other entry and file as it was, in the same order.
C25_InvalidateRemovesExactlyOne ==
    [][(cacheOp'.op = "invalidate" /\ cacheOp' # cacheOp) =>
          LET k == cacheOp'.key
          IN  IF ~HasKey(cache.entries, k)
              THEN cache' = cache
              ELSE /\ cache'.entries = SelectSeq(cache.entries, LAMBDA e : e.key # k)
                   /\ Len(cache'.entries) = Len(cache.entries) - 1
                   /\ cache'.files = cache.files \ {k}
                   /\ cache'.total_size = cache.total_size - EntryOf(cache.entries, k).size
                   /\ cache'.saved = [entries |-> cache'.entries,
                                      total_size |-> cache'.total_size]]_vars

C25_Witness ==
    /\ cacheOp.op = "invalidate"
    /\ cacheOp.pre # NoEntry
    /\ cacheOp.pre.size > 0
    /\ Len(cache.entries) > 1
    /\ ~HasKey(cache.entries, cacheOp.key)

\* C26: a get that returns a handle changes nothing in the cache: the entry's
\* timestamp and size, total_size, the other entries, their order, the files and
\* the saved index are what they were, so the entry a put evicts first is the same
\* before and after the hit.
C26_HitLeavesCacheUnchanged ==
    [][(cacheOp'.op = "get" /\ cacheOp'.hit /\ cacheOp' # cacheOp) =>
          /\ cache' = cache
          /\ EntryOf(cache'.entries, cacheOp'.key) = cacheOp'.pre
          /\ oldest_key(cache'.entries) = oldest_key(cache.entries)]_vars

C26_Witness ==
    /\ cacheOp.op = "get"
    /\ cacheOp.hit
    /\ cacheOp.at > cacheOp.pre.timestamp
    /\ oldest_key(cache.entries) = cacheOp.key
    /\ \E i \in DOMAIN cache.entries :
          cache.entries[i].timestamp > cacheOp.pre.timestamp

\* C5: while download_model runs, the file at every artifact's final path stays
\* as it is (absent or its complete previous content) at each step, failure steps
\* included, except at the rename of the finished temporary file, which leaves the
\* complete downloaded content at the final path of the artifact being downloaded.
C5_FinalPathAtomic ==
    [][dl.pc # "idle" =>
          \A n \in Names :
             \/ FileAt(mgr'.disk, model_path(n)) = FileAt(mgr.disk, model_path(n))
             \/ /\ dl.pc = "rename"
                /\ dl.name = n
                /\ FileAt(mgr'.disk, model_path(n)) = << Remote(n) >>]_vars

\* C6: a download_model call struck by a transport error (the failure of the
\* initial request included) returns False and leaves no temporary file on disk.
C6_ErrorReturnsFalseNoTemp ==
    (lastOp.op = "download" /\ lastOp.error) =>
        /\ lastOp.result = "False"
        /\ ~exists(mgr.disk, temp_path(lastOp.name))

\* C7: a download without force made right after a download of the same artifact
\* returned True never reaches the network, returns True, and leaves the registry
\* (in memory and on disk) and the files as they were.
C7_RepeatDownloadIsNoop ==
    /\ ~(dl.pc # "idle" /\ dl.repeat)
    /\ (lastOp.op = "download" /\ lastOp.repeat) =>
          (lastOp.result = "True" /\ ~lastOp.net /\ lastOp.same)

C7_Witness ==
    /\ lastOp.op = "download"
    /\ lastOp.repeat
    /\ lastOp.after_net
    /\ lastOp.result = "True"

\* C8: right after ensure_models returns True, verify_model returns True for
\* every artifact flagged required.
C8_EnsureTrueAllVerified ==
    (lastOp.op = "ensure" /\ lastOp.result = "True") =>
        \A n \in Names : mgr.config[n].required => verify_model(mgr, n).result

\* C9: verify_model on an artifact with no recorded hash: if its file exists the
\* call returns True and the hash of that file is the recorded hash, in memory and
\* in the manifest on disk; if the file is missing it returns False and leaves
\* the registry unchanged.
C9_TrustOnFirstUse ==
    (lastOp.op = "verify" /\ lastOp.pre_sha = NoneHash) =>
        IF exists(mgr.disk, model_path(lastOp.name))
        THEN /\ lastOp.result = "True"
             /\ mgr.config[lastOp.name].sha256
                   = calculate_hash(mgr.disk[model_path(lastOp.name)])
             /\ mgr.manifest = mgr.config
        ELSE /\ lastOp.result = "False"
             /\ lastOp.same

C9_Witness ==
    /\ lastOp.op = "verify"
    /\ lastOp.pre_sha = NoneHash
    /\ lastOp.result = "True"
    /\ manifest_sha256(mgr, lastOp.name) = calculate_hash(mgr.disk[model_path(lastOp.name)])

\* C10: once verify_model has succeeded on an artifact whose hash is recorded and
\* the file has since come to hold other content (or none) with no download of it
\* in between, verify_model returns False and leaves the registry unchanged.
C10_ChangedFileFailsVerify ==
    (lastOp.op = "verify" /\ lastOp.stale) =>
        (lastOp.result = "False" /\ lastOp.same)

C10_Witness ==
    /\ lastOp.op = "verify"
    /\ lastOp.stale
    /\ exists(mgr.disk, model_path(lastOp.name))
    /\ lastOp.result = "False"

\* C12: get_model_path, download_model and get_model_info called with a name that
\* is not in the registry raise the unknown-model error (ValueError) in the step
\* of the call: no download is begun, and the registry, the manifest and the disk
\* are what they were.
C12_UnknownNameRaises ==
    [][\A n \in AllNames \ Names :
          (lastOp' # lastOp /\ lastOp'.name = n
              /\ lastOp'.op \in {"download", "info", "path"})
          => /\ lastOp'.result = "raised"
             /\ lastOp'.exc = "ValueError"
             /\ ~lastOp'.net
             /\ mgr' = mgr
             /\ dl' = dl /\ dl.pc = "idle"]_vars

C12_Witness ==
    /\ lastOp.op = "path"
    /\ lastOp.name = Name_z
    /\ lastOp.result = "raised"
    /\ mgr.disk # << >>

\* C17: ensure_models calls download_model for every required artifact whose
\* verify_model fails: no such artifact is passed over.
C17_EveryFailedRequiredDownloaded == ~ens.skipped

\* C18: when download_model has returned False or raised, the hash recorded for
\* the name and the file at its final path are what they were when it was called.
C18_FailedDownloadKeepsState ==
    lastOp.dl_result \in {"False", "raised"} =>
        /\ mgr.config[lastOp.name].sha256 = lastOp.pre_sha
        /\ FileAt(mgr.disk, model_path(lastOp.name)) = lastOp.pre_file

\* C19: when get_model_path has returned a path for a registered name, a file
\* exists at that path and verify_model of the name is true.
C19_PathMeansValidFile ==
    (lastOp.op = "path" /\ lastOp.result = "path") =>
        /\ exists(mgr.disk, model_path(lastOp.name))
        /\ verify_model(mgr, lastOp.name).result

\* C20: a recorded hash that is not None changes only in the step of a
\* download_model call that follows the last chunk of its transfer; no step of
\* verify_model, get_model_info, get_model_path or ensure_models, and no
\* download_model that returns early, changes it.
C20_HashChangesOnlyByTransfer ==
    [][\A n \in Names :
          (mgr.config[n].sha256 # NoneHash
              /\ mgr'.config[n].sha256 # mgr.config[n].sha256)
          => (dl.pc = "hash" /\ dl.name = n)]_vars

C20_Witness ==
    /\ lastOp.op = "info"
    /\ lastOp.result = "False"
    /\ lastOp.pre_sha # NoneHash
    /\ exists(mgr.disk, model_path(lastOp.name))
    /\ mgr.config[lastOp.name].sha256 = lastOp.pre_sha

\* the temporary path of an artifact is no artifact's final path and no other
\* artifact's temporary path
TempPathsDistinct ==
    \A n1, n2 \in Names :
        /\ temp_path(n1) # model_path(n2)
        /\ n1 # n2 => temp_path(n1) # temp_path(n2)

\* C28: temporary paths are distinct from every final path and from each other, no
\* step of a download changes the file at another artifact's final path, and a
\* download that transferred and returned True leaves the artifact's own content
\* at its own final path.
C28_DownloadsDoNotInterfere ==
    [][/\ TempPathsDistinct
       /\ \A n \in Names :
             (dl.pc # "idle" /\ dl.name # n) =>
                FileAt(mgr'.disk, model_path(n)) = FileAt(mgr.disk, model_path(n))
       /\ (lastOp' # lastOp /\ lastOp'.op = "download" /\ lastOp'.result = "True"
             /\ lastOp'.net) =>
                FileAt(mgr'.disk, model_path(lastOp'.name)) = << Remote(lastOp'.name) >>]_vars

\* C29: constructing ModelManager over an existing models.json turns every
\* placeholder hash into None and saves the result: afterwards neither the
\* registry in memory nor the manifest file holds the placeholder, the two are
\* equal, and every entry is the one the file held, its hash aside where that
\* was the placeholder.
C29_LoadNormalizesPlaceholders ==
    [][proc'.gen > proc.gen =>
        /\ mgr'.manifest = mgr'.config
        /\ DOMAIN mgr'.config = DOMAIN mgr.manifest
        /\ \A n \in DOMAIN mgr.manifest :
              /\ mgr'.config[n].sha256 # Sentinel
              /\ mgr'.manifest[n].sha256 # Sentinel
              /\ mgr'.config[n].required = mgr.manifest[n].required
              /\ mgr.manifest[n].sha256 # Sentinel =>
                    mgr'.config[n].sha256 = mgr.manifest[n].sha256
              /\ mgr.manifest[n].sha256 = Sentinel =>
                    mgr'.config[n].sha256 = NoneHash
        /\ mgr'.disk = mgr.disk]_vars

\* a construction that found a placeholder in one entry and a recorded hash in
\* another has just ended
C29_Witness ==
    /\ lastOp.op = "restart"
    /\ proc.gen > 1
    /\ proc.normalized # {}
    /\ \A n \in proc.normalized : mgr.manifest[n].sha256 = NoneHash
    /\ \E n \in Names \ proc.normalized :
          mgr.manifest[n].sha256 = calculate_hash(Remote(n))

(***************************************************************************)
(* InferenceHandler.  load_model runs attempt by attempt (ih.pc).  What an   *)
(* attempt whose from_pretrained raises had allocated is referenced by the  *)
(* frames of the exception's traceback while the except block runs, so      *)
(* gc.collect() in _cleanup does not release it; it is released when the    *)
(* except block is left, which is when load_model returns.                   *)
(***************************************************************************)
cleanup_keeps_model(h) == h

\* _cleanup (lines 36-41): the model is dropped, then gc.collect()
cleanup(h) == [h EXCEPT !.model = NoModel]

unwind_keeps(h) == h

\* the except block is left by its return (lines 59, 76): the exception goes away
unwind(h) == [h EXCEPT !.held = {}]

\* from_pretrained(..., gpu_layers = t) and what follows it in the try block
from_pretrained(h, t) ==
    IF t \in h.failing
    THEN [h EXCEPT !.tried = Append(@, t), !.held = @ \cup {t}]
    ELSE [h EXCEPT !.tried = Append(@, t), !.model = t]

BeginLoad(caller) ==
    ih' = [ih EXCEPT !.pc = "preferred", !.result = "none", !.tried = << >>,
                     !.during = ih.failing, !.caller = caller,
                     !.after_failure = (ih.result \in {"False", "RuntimeError"})]

\* load_model is called (line 43)
LoadModel ==
    /\ ih.pc = "idle"
    /\ BeginLoad("api")
    /\ UNCHANGED << cvars, mvars, proc, cli, keyOp, loadOp, sv >>

\* generate_response (lines 95-97) loads first when no model is held
GenerateResponse ==
    /\ ih.pc = "idle"
    /\ IF ih.model = NoModel
       THEN BeginLoad("generate")
       ELSE ih' = [ih EXCEPT !.result = "response", !.caller = "generate",
                             !.tried = << >>, !.during = ih.failing,
                             !.after_failure = FALSE]
    /\ UNCHANGED << cvars, mvars, proc, cli, keyOp, loadOp, sv >>

\* what the caller of load_model gets: generate_response raises on False
Finish(h, loaded) ==
    [unwind(h) EXCEPT !.pc = "idle",
              !.result = IF loaded THEN (IF h.caller = "generate" THEN "response"
                                         ELSE "True")
                         ELSE IF h.caller = "generate" THEN "RuntimeError"
                         ELSE "False"]

\* the try block of load_model (lines 45-55)
AttemptPreferred ==
    /\ ih.pc = "preferred"
    /\ LET h == from_pretrained(ih, ih.gpu_layers)
       IN  ih' = IF ih.gpu_layers \in ih.failing
                 THEN [h EXCEPT !.pc = "cleanup"]
                 ELSE Finish(h, TRUE)
    /\ UNCHANGED << cvars, mvars, proc, cli, keyOp, loadOp, sv >>

\* the except block of load_model calls _cleanup (line 58)
Cleanup ==
    /\ ih.pc = "cleanup"
    /\ ih' = [cleanup(ih) EXCEPT !.pc = "cpu"]
    /\ UNCHANGED << cvars, mvars, proc, cli, keyOp, loadOp, sv >>

\* _load_model_on_cpu (lines 61-76)
AttemptCpu ==
    /\ ih.pc = "cpu"
    /\ ih' = Finish(from_pretrained(ih, CpuOnly), CpuOnly \notin ih.failing)
    /\ UNCHANGED << cvars, mvars, proc, cli, keyOp, loadOp, sv >>

\* between calls, the set of configurations the device can initialize changes
DeviceChange(failing) ==
    /\ ih.pc = "idle"
    /\ failing # ih.failing
    /\ ih' = [ih EXCEPT !.failing = failing]
    /\ UNCHANGED << cvars, mvars, proc, cli, keyOp, loadOp, sv >>

InferenceInit ==
    /\ CacheInit /\ MgrInitWith({})
    /\ proc = FirstProc /\ cli = NoCli /\ keyOp = NoKeyOp /\ loadOp = NoLoad
    /\ sv = NoSave
    /\ \E g \in Tiers : \E failing \in SUBSET Tiers : ih = Handler(g, failing)

InferenceNext ==
    \/ LoadModel
    \/ GenerateResponse
    \/ AttemptPreferred
    \/ Cleanup
    \/ AttemptCpu
    \/ \E failing \in SUBSET Tiers : DeviceChange(failing)

InferenceSpec == InferenceInit /\ [][InferenceNext]_vars

(***************************************************************************)
(* Claims checked under InferenceSpec.                                     *)
(***************************************************************************)

\* C13: a handler configured with a GPU tier (strong or weak), on a device where
\* both GPU tiers fail to initialize and CPU-only does not: when load_model has
\* returned it returned True, the model held is the CPU-only one, and nothing
\* that the failed attempts allocated is left.
C13_FallsBackToCpuClean ==
    (/\ ih.pc = "idle" /\ ih.caller = "api" /\ ih.result # "none"
     /\ ih.gpu_layers \in {Strong, Weak}
     /\ ih.during = {Strong, Weak})
    => /\ ih.result = "True"
       /\ ih.model = CpuOnly
       /\ ih.held = {}

C13_Witness ==
    /\ ih.pc = "idle" /\ ih.caller = "api"
    /\ ih.gpu_layers = Strong
    /\ ih.during = {Strong, Weak}
    /\ ih.tried = << Strong, CpuOnly >>
    /\ ih.result = "True"
    /\ ih.model = CpuOnly

\* C21: when the configured tier and the CPU-only tier both fail to initialize,
\* the load ends with no model held: load_model has returned False (generate_response
\* has raised RuntimeError), handler.model is None, and the handler is callable
\* again; every load starts with the configured tier, and a load that follows a
\* failed one on a device where CPU-only initializes ends with a model held.
C21_FailedLoadIsRetryable ==
    /\ ih.tried # << >> => ih.tried[1] = ih.gpu_layers
    /\ (ih.pc = "idle" /\ ih.tried # << >>) =>
          /\ {ih.gpu_layers, CpuOnly} \subseteq ih.during =>
                /\ ih.model = NoModel
                /\ ih.result = IF ih.caller = "generate" THEN "RuntimeError" ELSE "False"
                /\ ih.tried = << ih.gpu_layers, CpuOnly >>
          /\ (ih.after_failure /\ CpuOnly \notin ih.during) =>
                /\ ih.model # NoModel
                /\ ih.result = IF ih.caller = "generate" THEN "response" ELSE "True"

C21_Witness ==
    /\ ih.pc = "idle"
    /\ ih.after_failure
    /\ ih.caller = "generate"
    /\ ih.result = "response"
    /\ ih.model = ih.gpu_layers
    /\ ih.gpu_layers = Strong

\* C22: within one load the attempts are made in strictly decreasing order of
\* gpu_layers, so none is made twice, and the CPU-only attempt is made only after
\* the configured one has failed and what it allocated has been released.
C22_TiersOnceInOrder ==
    /\ \A i, j \in DOMAIN ih.tried : i < j => ih.tried[i] > ih.tried[j]
    /\ ih.pc = "cpu" =>
          /\ ih.tried = << ih.gpu_layers >>
          /\ ih.gpu_layers \in ih.failing
          /\ ih.held = {}

(***************************************************************************)
(* The command line (main, lines 308-393).  Every run constructs a manager  *)
(* on the manifest and the files as they are; download and ensure run step  *)
(* by step as above, and the run ends with the exit code main gives for the *)
(* result.                                                                  *)
(***************************************************************************)
\* the exit code of main for command cmd, --model given or not, when the call it
\* made returned res ("raised": an Exception reached the except of lines 391-393)
main_exit(cmd, has_model, res) ==
    IF res = "raised" THEN 1
    ELSE IF cmd = "ensure" THEN (IF res = "True" THEN 0 ELSE 1)
    ELSE IF cmd = "info" THEN (IF has_model THEN 0 ELSE 1)
    ELSE IF cmd = "download"
         THEN (IF ~has_model THEN 1 ELSE IF res = "True" THEN 0 ELSE 1)
    ELSE IF cmd = "verify"
         THEN (IF has_model THEN 0 ELSE IF res = "True" THEN 0 ELSE 1)
    ELSE 0

\* the loop of `verify` without --model (lines 370-374) from registry entry i on
RECURSIVE verify_all(_, _)
verify_all(m, i) ==
    IF i > Len(Registry) THEN [m |-> m, result |-> TRUE]
    ELSE LET v == verify_model(m, Registry[i])
             r == verify_all(v.m, i + 1)
         IN  [m |-> r.m, result |-> v.result /\ r.result]

\* what successful verify_model calls on m have seen of each artifact's file
NoteAll(ver, m) ==
    [n \in Names |->
        IF /\ exists(m.disk, model_path(n))
           /\ m.config[n].sha256 = calculate_hash(m.disk[model_path(n)])
        THEN << m.disk[model_path(n)] >> ELSE ver[n]]

CliFree == cli.pc # "running" /\ Idle

\* a run can start and its ModelManager(...) (lines 330-334) returns: load_config
\* reads a document from models.json
CliLoads == CliFree /\ parses(mgr.manifest)

Exited(cmd, model, failed, res) ==
    [pc |-> "exited", cmd |-> cmd, model |-> model, failed |-> failed,
     exit |-> main_exit(cmd, model # << >>, res)]

\* any command when models.json holds no document: the constructor raises
\* JSONDecodeError inside main's try, the except of lines 391-393 exits with 1
CliConstructRaises(cmd, model) ==
    /\ CliFree
    /\ ~parses(mgr.manifest)
    /\ cli' = Exited(cmd, model, TRUE, "raised")
    /\ lastOp' = [NoOp EXCEPT !.op = "cli", !.result = "raised",
                              !.exc = "JSONDecodeError"]
    /\ UNCHANGED << mgr, dl, ens, verified, tampers, cvars, proc, ih, keyOp, loadOp, sv >>

\* `verify --model name` (lines 364-367)
CliVerify(name) ==
    /\ CliLoads
    /\ LET v == verify_model(load_config(mgr), name)
       IN  /\ mgr' = v.m
           /\ verified' = NoteAll(verified, v.m)
           /\ cli' = Exited("verify", << name >>, ~v.result,
                            IF v.result THEN "True" ELSE "False")
    /\ lastOp' = [NoOp EXCEPT !.op = "cli"]
    /\ UNCHANGED << dl, ens, tampers, cvars, proc, ih, keyOp, loadOp, sv >>

\* `verify` (lines 368-375) and `list` (lines 378-389): verify_model of every entry
CliAll(cmd) ==
    /\ CliLoads
    /\ LET r == verify_all(load_config(mgr), 1)
       IN  /\ mgr' = r.m
           /\ verified' = NoteAll(verified, r.m)
           /\ cli' = Exited(cmd, << >>, cmd = "verify" /\ ~r.result,
                            IF r.result THEN "True" ELSE "False")
    /\ lastOp' = [NoOp EXCEPT !.op = "cli"]
    /\ UNCHANGED << dl, ens, tampers, cvars, proc, ih, keyOp, loadOp, sv >>

\* `info --model name` (lines 344-348)
CliInfo(name) ==
    /\ CliLoads
    /\ LET m0 == load_config(mgr)
           unknown == unknown_error(m0, name) # "none"
           v == verify_model(m0, name)
       IN  /\ mgr' = IF unknown THEN m0 ELSE v.m
           /\ verified' = IF unknown THEN verified ELSE NoteAll(verified, v.m)
           /\ cli' = Exited("info", << name >>, unknown,
                            IF unknown THEN "raised" ELSE "True")
    /\ lastOp' = [NoOp EXCEPT !.op = "cli"]
    /\ UNCHANGED << dl, ens, tampers, cvars, proc, ih, keyOp, loadOp, sv >>

\* `info` or `download` without --model (lines 349-351, 354-356)
CliMissingModel(cmd) ==
    /\ CliLoads
    /\ mgr' = load_config(mgr)
    /\ cli' = Exited(cmd, << >>, TRUE, "none")
    /\ lastOp' = [NoOp EXCEPT !.op = "cli"]
    /\ UNCHANGED << dl, ens, verified, tampers, cvars, proc, ih, keyOp, loadOp, sv >>

\* `download --model name [--force]` (line 357) is entered
CliDownload(name, force) ==
    /\ CliLoads
    /\ cli' = [NoCli EXCEPT !.pc = "running", !.cmd = "download", !.model = << name >>]
    /\ IF unknown_error(load_config(mgr), name) # "none"
       THEN /\ lastOp' = [NoOp EXCEPT !.op = "download", !.name = name,
                                     !.result = "raised",
                                     !.exc = unknown_error(load_config(mgr), name)]
            /\ mgr' = load_config(mgr)
            /\ UNCHANGED << dl, ens, verified >>
       ELSE BeginDownload(load_config(mgr), name, force, "api")
    /\ UNCHANGED << tampers, cvars, proc, ih, keyOp, loadOp, sv >>

\* `ensure` (line 337) is entered
CliEnsure ==
    /\ CliLoads
    /\ cli' = [NoCli EXCEPT !.pc = "running", !.cmd = "ensure"]
    /\ mgr' = load_config(mgr)
    /\ ens' = [IdleEns EXCEPT !.pc = "loop", !.i = 1]
    /\ lastOp' = Pending
    /\ UNCHANGED << dl, verified, tampers, cvars, proc, ih, keyOp, loadOp, sv >>

\* the call of `download` or `ensure` has returned or raised: main exits
CliExit ==
    /\ cli.pc = "running"
    /\ Idle
    /\ cli' = Exited(cli.cmd, cli.model, lastOp.result # "True", lastOp.result)
    /\ UNCHANGED << mvars, cvars, proc, ih, keyOp, loadOp, sv >>

CliTamper(name, kind) == cli.pc # "running" /\ Tamper(name, kind)

CliNext ==
    \/ \E n \in AllNames : CliVerify(n)
    \/ \E cmd \in {"verify", "list"} : CliAll(cmd)
    \/ \E n \in AllNames : CliInfo(n)
    \/ \E cmd \in {"info", "download"} : CliMissingModel(cmd)
    \/ \E n \in AllNames, f \in BOOLEAN : CliDownload(n, f)
    \/ CliEnsure
    \/ \E cmd \in {"ensure", "download", "verify", "list", "info"},
          model \in {<< >>} \cup {<< n >> : n \in AllNames} : CliConstructRaises(cmd, model)
    \/ CliExit
    \/ \E ok \in BOOLEAN : DownloadRequest(ok)
    \/ \E ok \in BOOLEAN : DownloadOpen(ok)
    \/ \E ok \in BOOLEAN : DownloadChunk(ok)
    \/ DownloadHashRaises
    \/ DownloadSaveTruncates
    \/ \E ok \in BOOLEAN : DownloadHash(ok)
    \/ \E ok \in BOOLEAN : DownloadRename(ok)
    \/ EnsureIter
    \/ EnsureReturn
    \/ \E n \in Names, kind \in {"truncate", "flip", "delete"} : CliTamper(n, kind)

CliSpec == Init /\ [][CliNext]_vars

(***************************************************************************)
(* Claims checked under CliSpec.                                           *)
(***************************************************************************)

\* C14: when a run of the command line has ended, its exit code is 1 if its
\* operation failed (an artifact it verified is invalid, its download or ensure
\* did not return True, the name is unknown, or --model is missing where it is
\* required), and 0 otherwise.
C14_ExitCodeTellsFailure ==
    cli.pc = "exited" => (cli.exit = 1 <=> cli.failed)

(***************************************************************************)
(* ModelCache.get_cache_key.  A configuration is a dict: a sequence of      *)
(* fields in insertion order, each [k, v] with k the place of the field's    *)
(* name in FieldNames (which is in string order) and no name twice.          *)
(***************************************************************************)
FieldNames == << "ctx", "device", "dtype" >>
FieldValues == {0, 1}
ModelNames == {"a", "b.gguf"}

Fields == [k : DOMAIN FieldNames, v : FieldValues]

RECURSIVE ConfigsOfLen(_)
ConfigsOfLen(n) ==
    IF n = 0 THEN {<< >>}
    ELSE {Append(c, f) : c \in ConfigsOfLen(n - 1), f \in Fields}

Configs ==
    {c \in UNION {ConfigsOfLen(n) : n \in 0..Len(FieldNames)} :
        \A i, j \in DOMAIN c : i # j => c[i].k # c[j].k}

\* the items of the dict, whatever their order
Items(config) == {config[i] : i \in DOMAIN config}

json_dumps_unsorted(config) ==
    [i \in DOMAIN config |-> << FieldNames[config[i].k], config[i].v >>]

\* json.dumps(config, sort_keys=True) (line 44): the fields in the order of their names
json_dumps(config) ==
    [i \in DOMAIN config |->
        LET f == CHOOSE f \in Items(config) :
                    Cardinality({g \in Items(config) : g.k <= f.k}) = i
        IN  << FieldNames[f.k], f.v >>]

\* get_cache_key (lines 42-45): sha256 of "model_name:config_str"
get_cache_key(model_name, config) == << "sha256", model_name, ":", json_dumps(config) >>

\* get_cache_key is called for (name, c1), for (name, c2), and for (name, c1) again
GetCacheKey ==
    /\ ~keyOp.done
    /\ keyOp' = [keyOp EXCEPT !.done = TRUE,
                              !.k1 = get_cache_key(keyOp.name, keyOp.c1),
                              !.k2 = get_cache_key(keyOp.name, keyOp.c2),
                              !.k1again = get_cache_key(keyOp.name, keyOp.c1)]
    /\ UNCHANGED << cvars, mvars, proc, ih, cli, loadOp, sv >>

\* the arguments: a model name and two configurations
KeyInit ==
    /\ CacheInit /\ MgrInitWith({})
    /\ proc = FirstProc /\ ih = Handler(0, {}) /\ cli = NoCli /\ loadOp = NoLoad
    /\ sv = NoSave
    /\ \E name \in ModelNames, c1 \in Configs, c2 \in Configs :
          keyOp = [NoKeyOp EXCEPT !.name = name, !.c1 = c1, !.c2 = c2]

KeyNext == GetCacheKey

KeySpec == KeyInit /\ [][KeyNext]_vars

(***************************************************************************)
(* Claims checked under KeySpec.                                           *)
(***************************************************************************)

\* C15: for a model name and two configurations with the same fields and values,
\* in whatever order, get_cache_key returns equal keys; and called again with the
\* same arguments it returns the same key.
C15_KeyIgnoresFieldOrder ==
    keyOp.done =>
        /\ Items(keyOp.c1) = Items(keyOp.c2) => keyOp.k1 = keyOp.k2
        /\ keyOp.k1again = keyOp.k1

C15_Witness ==
    /\ keyOp.done
    /\ Len(keyOp.c1) = Len(FieldNames)
    /\ keyOp.c1 # keyOp.c2
    /\ Items(keyOp.c1) = Items(keyOp.c2)
    /\ keyOp.k1 = keyOp.k2

(***************************************************************************)
(* ModelManager.load_model (lines 232-257) on the cache above, with the     *)
(* keys get_cache_key gives.                                                *)
(***************************************************************************)
\* the configurations load_model is called with: one configuration in its two orders
LoadConfigs ==
    {c \in Configs : Items(c) = {[k |-> 1, v |-> 0], [k |-> 2, v |-> 1]}}

\* the bytes of the model's parameters (line 254)
model_size(model_name) == IF model_name = "a" THEN 1 ELSE 2

\* load_model(name, config); loads says whether torch.load of the key's file
\* succeeds, ok whether from_pretrained does
ManagerLoadModel(name, config, loads, ok) ==
    LET cache_key == get_cache_key(name, config)
        g == get(cache, cache_key, now, loads)
        rec == [NoLoad EXCEPT
                  !.op = "load", !.name = name, !.config = config, !.at = now,
                  !.loadable = (cache_key \in cache.files /\ loads),
                  !.prev_config = loadOp.config,
                  !.again = /\ loadOp.op = "load" /\ loadOp.result = "handle"
                            /\ loadOp.name = name
                            /\ Items(loadOp.config) = Items(config)
                            /\ now - loadOp.ts < ttl]
    IN  /\ IF g.hit
           THEN /\ cache' = g.cache
                /\ loadOp' = [rec EXCEPT !.result = "handle", !.cached = TRUE,
                                         !.ts = EntryOf(cache.entries, cache_key).timestamp]
           ELSE IF ok
           THEN /\ cache' = put(g.cache, cache_key, model_size(name), now)
                /\ loadOp' = [rec EXCEPT !.result = "handle", !.instantiated = TRUE,
                                         !.ts = now]
           ELSE /\ cache' = g.cache
                /\ loadOp' = [rec EXCEPT !.result = "raised", !.instantiated = TRUE]
        /\ UNCHANGED << now, cacheOp, mvars, proc, ih, cli, keyOp, sv >>

\* cache.invalidate(key) is called for a key of the index
LoadInvalidate(k) ==
    /\ HasKey(cache.entries, k)
    /\ cache' = invalidate(cache, k)
    /\ loadOp' = [NoLoad EXCEPT !.op = "invalidate"]
    /\ UNCHANGED << now, cacheOp, mvars, proc, ih, cli, keyOp, sv >>

LoadNext ==
    \/ \E name \in ModelNames, config \in LoadConfigs, loads \in BOOLEAN, ok \in BOOLEAN :
          ManagerLoadModel(name, config, loads, ok)
    \/ \E name \in ModelNames, config \in LoadConfigs :
          LoadInvalidate(get_cache_key(name, config))
    \/ \E name \in ModelNames, config \in LoadConfigs :
          LoseCacheFile(get_cache_key(name, config))
    \/ Tick

LoadSpec == InitCacheOnly /\ [][LoadNext]_vars

(***************************************************************************)
(* Claims checked under LoadSpec.                                          *)
(***************************************************************************)

\* C16 as stated: a load_model that repeats the successful load_model before it
\* (same name, equal configuration) before the TTL of the entry has elapsed, with
\* no eviction or invalidation in between, is served from the cache and does not
\* call from_pretrained.
C16_RepeatLoadFromCache ==
    loadOp.again => (loadOp.cached /\ ~loadOp.instantiated)

\* C16 amended: from_pretrained is called only after cache.get has returned a miss,
\* and a load_model that repeats the successful load_model before it before the TTL
\* has elapsed, with no eviction or invalidation in between, is served from the
\* cache without a call of from_pretrained when the entry's .pt file is still in
\* the cache directory and torch.load of it succeeds.  When the file is gone or
\* torch.load raises, the repeat is not served from the cache: from_pretrained is
\* called again; if it returns, the handle is returned and the key has an entry
\* inserted by this call, and if it raises, load_model raises and the key has no
\* entry.
C16_RepeatLoadFromCacheIfLoadable ==
    LET cache_key == get_cache_key(loadOp.name, loadOp.config)
    IN  /\ loadOp.instantiated => ~loadOp.cached
        /\ (loadOp.again /\ loadOp.loadable) =>
              (loadOp.result = "handle" /\ loadOp.cached /\ ~loadOp.instantiated)
        /\ (loadOp.again /\ ~loadOp.loadable) =>
              /\ ~loadOp.cached
              /\ loadOp.instantiated
              /\ loadOp.result \in {"handle", "raised"}
              /\ loadOp.result = "handle" =>
                    /\ HasKey(cache.entries, cache_key)
                    /\ EntryOf(cache.entries, cache_key).timestamp = loadOp.at
              /\ loadOp.result = "raised" => ~HasKey(cache.entries, cache_key)

C16_Witness ==
    /\ loadOp.again
    /\ loadOp.loadable
    /\ loadOp.cached
    /\ loadOp.config # loadOp.prev_config

\* C23: a load_model that missed the cache returns a handle also when
\* initialization on the configured device fails (the loader falls back), and the
\* handle's entry is then in the cache index.
C23_MissLoadsThroughFallback ==
    (loadOp.op = "load" /\ loadOp.instantiated) =>
        /\ loadOp.result = "handle"
        /\ HasKey(cache.entries, get_cache_key(loadOp.name, loadOp.config))

(***************************************************************************)
(* save_cache_index (lines 38-40) and save_config (lines 154-156): the file *)
(* is opened with mode 'w', which empties it, json.dump writes the document  *)
(* chunk by chunk, and leaving the with block closes it.  The process may be *)
(* killed at any of these points, and the file may be read at any of them.  *)
(* load_cache_index (lines 26-29) only reads its file; load_config (lines    *)
(* 127-135) reads models.json and then saves it again.                       *)
(***************************************************************************)
IsDocument(f, content) ==
    \E v \in 1..MaxVersion : content \in {Doc(f, v), Foreign(f, v)}

\* the document of f changes in memory and its save begins: open(f, 'w')
SaveOpen(f) ==
    /\ sv.pc[f] = "idle"
    /\ sv.version[f] < MaxVersion
    /\ sv' = [sv EXCEPT !.pc[f] = "writing", !.version[f] = @ + 1,
                        !.disk[f] = << >>]
    /\ UNCHANGED << cvars, mvars, proc, ih, cli, keyOp, loadOp >>

\* json.dump writes the next chunk
SaveWrite(f) ==
    /\ sv.pc[f] = "writing"
    /\ Len(sv.disk[f]) < DocLen
    /\ sv' = [sv EXCEPT !.disk[f] = Append(@, Doc(f, sv.version[f])[Len(@) + 1])]
    /\ UNCHANGED << cvars, mvars, proc, ih, cli, keyOp, loadOp >>

\* the with block is left
SaveClose(f) ==
    /\ sv.pc[f] = "writing"
    /\ Len(sv.disk[f]) = DocLen
    /\ sv' = [sv EXCEPT !.pc[f] = "idle"]
    /\ UNCHANGED << cvars, mvars, proc, ih, cli, keyOp, loadOp >>

\* the process is killed while it saves f
SaveCrash(f) ==
    /\ sv.pc[f] = "writing"
    /\ sv' = [sv EXCEPT !.pc[f] = "crashed"]
    /\ UNCHANGED << cvars, mvars, proc, ih, cli, keyOp, loadOp >>

\* between runs models.json is replaced by a shipped or hand-edited manifest
ShipManifest ==
    /\ sv.pc["models.json"] = "idle"
    /\ sv.disk["models.json"] = Doc("models.json", sv.version["models.json"])
    /\ sv' = [sv EXCEPT !.disk["models.json"] =
                            Foreign("models.json", sv.version["models.json"])]
    /\ UNCHANGED << cvars, mvars, proc, ih, cli, keyOp, loadOp >>

\* load_cache_index with the file present (lines 27-29), in this process, in
\* another one or at the next start: json.load of the file, which raises when the
\* file does not hold an entire document.  Nothing is written.  A process that
\* starts after the one that saved was killed holds the index it read.
LoadCacheIndex ==
    LET f == "cache_index.json"
    IN  /\ sv' = [sv EXCEPT !.seen = [read |-> TRUE, file |-> f, content |-> sv.disk[f]],
                            !.pc[f] = IF @ = "crashed" /\ IsDocument(f, sv.disk[f])
                                      THEN "idle" ELSE @]
        /\ UNCHANGED << cvars, mvars, proc, ih, cli, keyOp, loadOp >>

\* load_config with the file present (lines 128-135), up to the open of
\* save_config: json.load of models.json, which raises when the file does not hold
\* an entire document; otherwise the placeholders are set to None and save_config
\* opens the same file with mode 'w', which empties it.  SaveWrite and SaveClose
\* are the rest of that save.
LoadConfig ==
    LET f == "models.json"
    IN  /\ sv' = IF IsDocument(f, sv.disk[f])
                 THEN [sv EXCEPT !.seen = [read |-> TRUE, file |-> f,
                                           content |-> sv.disk[f]],
                                 !.pc[f] = "writing",
                                 !.disk[f] = << >>]
                 ELSE [sv EXCEPT !.seen = [read |-> TRUE, file |-> f,
                                           content |-> sv.disk[f]]]
        /\ UNCHANGED << cvars, mvars, proc, ih, cli, keyOp, loadOp >>

SaveInit == CacheInit /\ MgrInitWith({}) /\ OtherInit

SaveNext ==
    \/ \E f \in SavedFiles : SaveOpen(f)
    \/ \E f \in SavedFiles : SaveWrite(f)
    \/ \E f \in SavedFiles : SaveClose(f)
    \/ \E f \in SavedFiles : SaveCrash(f)
    \/ ShipManifest
    \/ LoadCacheIndex
    \/ LoadConfig

SaveSpec == SaveInit /\ [][SaveNext]_vars

(***************************************************************************)
(* Claims checked under SaveSpec.                                          *)
(***************************************************************************)
\* C27: the index file and the manifest file hold an entire document at every
\* point, also while a save runs or after the process was killed in one, and what
\* a reader gets is an entire document; when no save runs the file holds the
\* version that is in memory.
C27_SavedFilesAlwaysWhole ==
    /\ \A f \in SavedFiles : IsDocument(f, sv.disk[f])
    /\ sv.seen.read => IsDocument(sv.seen.file, sv.seen.content)
    /\ \A f \in SavedFiles :
          sv.pc[f] = "idle" =>
             sv.disk[f] \in {Doc(f, sv.version[f]), Foreign(f, sv.version[f])}

(***************************************************************************)
(* Claims checked under RestartSpec.                                       *)
(***************************************************************************)

\* C11: from a manifest with one required artifact, hash unknown and no file: a
\* first ensure_models that downloads it and returns True leaves its file on disk
\* and the hash of that file in the manifest; in the process started next on that
\* manifest verify_model of it returns True, no download is ever begun, and
\* ensure_models returns True without sending a request.
C11_HashSurvivesRestart ==
    \A r \in Names : mgr.config[r].required =>
        /\ (proc.gen = 1 /\ lastOp.op = "ensure" /\ lastOp.result = "True" /\ lastOp.net)
              => /\ FileAt(mgr.disk, model_path(r)) = << Remote(r) >>
                 /\ manifest_sha256(mgr, r) = calculate_hash(Remote(r))
        /\ proc.ensured =>
              /\ dl.pc = "idle"
              /\ mgr.config[r].sha256 = calculate_hash(Remote(r))
              /\ (lastOp.op = "verify" /\ lastOp.name = r) => lastOp.result = "True"
              /\ lastOp.op = "ensure" => (lastOp.result = "True" /\ ~lastOp.net)

C11_Witness ==
    /\ proc.ensured
    /\ lastOp.op = "ensure"
    /\ lastOp.result = "True"
    /\ \E r \in Names : mgr.config[r].required /\ exists(mgr.disk, model_path(r))

====
